---- MODULE Spec2Model ----
(***************************************************************************)
(* Model of StandardCheck.py: the naming classifier (isValidFormat), the   *)
(* docstring checker (checkDocstring), the syntax-tree visitor CodeChecker  *)
(* and the runner (checkFile, main).                                       *)
(*                                                                         *)
(* Text is a sequence of one-character strings; a formatted diagnostic is *)
(* the concatenation of its pieces, as the f-strings of the source build  *)
(* it.  A syntax-tree node is a record; its children are nested records.  *)
(***************************************************************************)
EXTENDS Integers, Sequences, FiniteSets, TLC

VARIABLES
    fn,             \* the function a unit specification applies ("main" for the runner)
    arg,            \* the arguments of that call
    ret,            \* what the call returned or left behind
    itemsToIgnore,  \* CodeChecker.itemsToIgnore
    files,          \* the .py files os.walk discovers, in walk order
    fileIdx,        \* position of main's loop over the files
    errors,         \* main's accumulated list `errors`
    stdout,         \* the lines printed so far
    exitStatus,     \* the process's exit status (-1 while it runs)
    raised,         \* the exception that ended the process ("None" if none)
    pc              \* control position

vars == <<fn, arg, ret, itemsToIgnore, files, fileIdx, errors, stdout, exitStatus, raised, pc>>

----------------------------------------------------------------------------
(* Characters and strings                                                  *)

Lower == {"a","b","c","d","e","f","g","h","i","j","k","l","m",
          "n","o","p","q","r","s","t","u","v","w","x","y","z"}
Upper == {"A","B","C","D","E","F","G","H","I","J","K","L","M",
          "N","O","P","Q","R","S","T","U","V","W","X","Y","Z"}
Digit == {"0","1","2","3","4","5","6","7","8","9"}
Whitespace == {" ", "\n", "\t"}

\* str.isupper() of one character
IsUpperChar(c) == c \in Upper

\* str.lower() of one character, as re.IGNORECASE compares
LowerChar(c) ==
    LET up == <<"A","B","C","D","E","F","G","H","I","J","K","L","M",
                "N","O","P","Q","R","S","T","U","V","W","X","Y","Z">>
        lo == <<"a","b","c","d","e","f","g","h","i","j","k","l","m",
                "n","o","p","q","r","s","t","u","v","w","x","y","z">>
    IN  IF c \in Upper THEN lo[CHOOSE i \in 1..26 : up[i] = c] ELSE c

\* s[i:j] with 1-based inclusive bounds; empty when i > j
Slice(s, i, j) == IF i > j THEN <<>> ELSE SubSeq(s, i, j)

\* sub in s, at position i
MatchesAt(s, i, sub) ==
    /\ i + Len(sub) - 1 <= Len(s)
    /\ \A k \in 1..Len(sub) : s[i + k - 1] = sub[k]

\* s.find(sub): the first position where sub occurs, 0 when none (Python's -1)
Find(s, sub) ==
    LET hits == {i \in 1..Len(s) : MatchesAt(s, i, sub)}
    IN  IF hits = {} THEN 0 ELSE CHOOSE i \in hits : \A k \in hits : i <= k

\* sub in s
Contains(s, sub) == Find(s, sub) # 0

\* s.strip()
Strip(s) ==
    LET keep == {i \in 1..Len(s) : s[i] \notin Whitespace}
    IN  IF keep = {} THEN <<>>
        ELSE Slice(s, CHOOSE i \in keep : \A k \in keep : i <= k,
                      CHOOSE i \in keep : \A k \in keep : i >= k)

\* s.split(c) for a one-character separator c
RECURSIVE Split(_, _)
Split(s, c) ==
    LET hits == {i \in 1..Len(s) : s[i] = c}
    IN  IF hits = {} THEN <<s>>
        ELSE LET p == CHOOSE i \in hits : \A k \in hits : i <= k
             IN  <<Slice(s, 1, p - 1)>> \o Split(Slice(s, p + 1, Len(s)), c)

\* s.endswith(c)
EndsWith(s, c) == Len(s) > 0 /\ s[Len(s)] = c

\* str(n) for n >= 0
RECURSIVE Str(_)
Str(n) ==
    LET digits == <<"0","1","2","3","4","5","6","7","8","9">>
    IN  IF n < 10 THEN <<digits[n + 1]>>
        ELSE Str(n \div 10) \o <<digits[(n % 10) + 1]>>

----------------------------------------------------------------------------
(* isValidFormat, isCamelCase, isPascalCase                                *)

\* the regular expression tail (?:[A-Z][a-z0-9]*)*$ matched from position i
RECURSIVE MatchGroups(_, _)
MatchGroups(s, i) ==
    \/ i = Len(s) + 1
    \/ /\ i <= Len(s)
       /\ s[i] \in Upper
       /\ \E j \in (i + 1)..(Len(s) + 1) :
            /\ \A k \in (i + 1)..(j - 1) : s[k] \in Lower \cup Digit
            /\ MatchGroups(s, j)

\* re.match(r'^[a-z0-9]+(?:[A-Z][a-z0-9]*)*$', name) is not None
isCamelCase(name) ==
    \E j \in 2..(Len(name) + 1) :
        /\ \A k \in 1..(j - 1) : name[k] \in Lower \cup Digit
        /\ MatchGroups(name, j)

\* re.match(r'^[A-Z][A-Za-z0-9]+(?:[A-Z][a-z0-9]*)*$', name) is not None
isPascalCase(name) ==
    /\ Len(name) >= 1
    /\ name[1] \in Upper
    /\ \E j \in 3..(Len(name) + 1) :
        /\ \A k \in 2..(j - 1) : name[k] \in Upper \cup Lower \cup Digit
        /\ MatchGroups(name, j)

\* the loop of lines 65-69: the first segment character that is not upper
\* case returns False
SidesUpper(name) ==
    LET sides == Split(name, "_")
    IN  \A n \in 1..Len(sides) : \A k \in 1..Len(sides[n]) : IsUpperChar(sides[n][k])

\* isValidFormat with the test of line 64 ahead of the test of line 62
isValidFormat_underscoreTestFirst(name, type, ignore) ==
    IF name \in ignore THEN TRUE
    ELSE IF \A k \in 1..Len(name) : IsUpperChar(name[k]) THEN TRUE
    ELSE IF Contains(name, <<"_">>) THEN SidesUpper(name)
    ELSE IF name[1] = "_" THEN TRUE
    ELSE IF type # "None" THEN isPascalCase(name)
    ELSE isCamelCase(name)

\* isValidFormat(name, type) with self.itemsToIgnore = ignore; type is
\* "class" or None
isValidFormat(name, type, ignore) ==
    IF name \in ignore THEN TRUE
    ELSE IF \A k \in 1..Len(name) : IsUpperChar(name[k]) THEN TRUE
    ELSE IF name[1] = "_" THEN TRUE
    ELSE IF Contains(name, <<"_">>) THEN SidesUpper(name)
    ELSE IF type # "None" THEN isPascalCase(name)
    ELSE isCamelCase(name)

----------------------------------------------------------------------------
(* Diagnostics                                                             *)

\* what a method leaves behind: the diagnostics it appended to self.errors
\* and the exception it raised ("None" when it returned)
Returned(errs) == [errs |-> errs, raised |-> "None"]
Raised(errs, exc) == [errs |-> errs, raised |-> exc]

\* statement a, then statement b unless a raised
Then(a, b) ==
    IF a.raised # "None" THEN a
    ELSE [errs |-> a.errs \o b.errs, raised |-> b.raised]

\* f"{self.filename}:{node.lineno}: {message}"
toString(filename, node, message) ==
    filename \o <<":">> \o Str(node.lineno) \o <<": ">> \o message

\* self.errors.append(self.toString(node, message)) when cond holds
AppendIf(cond, filename, node, message) ==
    Returned(IF cond THEN <<toString(filename, node, message)>> ELSE <<>>)

MsgDescriptionMissing(name) == <<"'">> \o name \o <<"' docstring description is missing.">>
MsgNoPeriod(name) == <<"'">> \o name \o <<"' docstring description does not end with a period.">>
MsgCapital(name) == <<"'">> \o name \o <<"' has beginning capital letter in argument definition">>
MsgEndingPeriod(name) == <<"'">> \o name \o <<"' has invalid ending character(.) in argument definition">>
MsgMissingDocstring(name) == <<"'">> \o name \o <<"' is missing a docstring.">>

----------------------------------------------------------------------------
(* checkDocstring                                                          *)

SectionHeaders ==
    { <<"a","r","g","s",":">>, <<"r","e","t","u","r","n","s",":">>,
      <<"n","o","t","e","s",":">>, <<"y","i","e","l","d","s",":">>,
      <<"r","a","i","s","e","s",":">>, <<"u","p","d","a","t","e","s",":">> }

\* the headers the pattern matches at position i, ignoring case
HeadersAt(s, i) ==
    {h \in SectionHeaders :
        /\ i + Len(h) - 1 <= Len(s)
        /\ \A k \in 1..Len(h) : LowerChar(s[i + k - 1]) = h[k]}

\* re.split(r'Args:|Returns:|Notes:|Yields:|Raises:|Updates:', s, flags=re.IGNORECASE)
RECURSIVE SplitSections(_)
SplitSections(s) ==
    LET hits == {i \in 1..Len(s) : HeadersAt(s, i) # {}}
    IN  IF hits = {} THEN <<s>>
        ELSE LET p == CHOOSE i \in hits : \A k \in hits : i <= k
                 h == CHOOSE x \in HeadersAt(s, p) : TRUE
             IN  <<Slice(s, 1, p - 1)>> \o SplitSections(Slice(s, p + Len(h), Len(s)))

\* FirstLine taking sections[0]-style text, what precedes the first header,
\* when there is no blank line
FirstLine_beforeHeader(docstring) ==
    LET firstLineEndIndex == Find(docstring, <<"\n", "\n">>)
    IN  IF firstLineEndIndex = 0 THEN Strip(SplitSections(docstring)[1])
        ELSE Strip(Slice(docstring, 1, firstLineEndIndex - 1))

\* lines 161-165: the text the summary checks look at
FirstLine(docstring) ==
    LET firstLineEndIndex == Find(docstring, <<"\n", "\n">>)
    IN  IF firstLineEndIndex = 0 THEN Strip(docstring)
        ELSE Strip(Slice(docstring, 1, firstLineEndIndex - 1))

\* lines 167-170
checkSummary(filename, node, firstLine) ==
    Then(AppendIf(firstLine = <<>> \/ Contains(firstLine, <<":">>),
                  filename, node, MsgDescriptionMissing(node.name)),
         AppendIf(~Contains(firstLine, <<":">>) /\ ~EndsWith(firstLine, "."),
                  filename, node, MsgNoPeriod(node.name)))

\* line 177: the definition the line's checks look at
ArgumentDefinition(line) == Strip(Split(Strip(line), ":")[2])

\* lines 187-192, one pass of the loop over colonSplit[1:]
checkAdditionalInfo(filename, node, additionalInfo) ==
    IF additionalInfo = <<>> THEN Returned(<<>>)
    ELSE IF Strip(additionalInfo) = <<>> THEN Raised(<<>>, "IndexError")
    ELSE Then(AppendIf(IsUpperChar(Strip(additionalInfo)[1]),
                       filename, node, MsgCapital(node.name)),
              AppendIf(EndsWith(Strip(additionalInfo), "."),
                       filename, node, MsgEndingPeriod(node.name)))

\* lines 186-192: the loop over colonSplit[i:]
RECURSIVE checkClauses(_, _, _, _)
checkClauses(filename, node, colonSplit, i) ==
    IF i > Len(colonSplit) THEN Returned(<<>>)
    ELSE Then(checkAdditionalInfo(filename, node, colonSplit[i]),
              checkClauses(filename, node, colonSplit, i + 1))

\* lines 175-192, one pass of the loop over the lines of sections[0]
checkArgLine(filename, node, line) ==
    IF Strip(line) = <<>> \/ ~Contains(line, <<":">>) THEN Returned(<<>>)
    ELSE LET argumentDefinition == ArgumentDefinition(line)
         IN  IF argumentDefinition = <<>> THEN Returned(<<>>)
             ELSE Then(AppendIf(IsUpperChar(argumentDefinition[1]),
                                filename, node, MsgCapital(node.name)),
                  Then(AppendIf(EndsWith(argumentDefinition, "."),
                                filename, node, MsgEndingPeriod(node.name)),
                       checkClauses(filename, node, Split(argumentDefinition, ";"), 2)))

\* lines 174-192: the loop over lines[i:]
RECURSIVE checkArgLines(_, _, _, _)
checkArgLines(filename, node, lines, i) ==
    IF i > Len(lines) THEN Returned(<<>>)
    ELSE Then(checkArgLine(filename, node, lines[i]),
              checkArgLines(filename, node, lines, i + 1))

\* checkDocstring(node): node.hasDoc and node.doc are what ast.get_docstring
\* returns (hasDoc false for None)
checkDocstring(filename, node) ==
    IF node.hasDoc /\ node.doc # <<>>
    THEN LET sections == Tail(SplitSections(node.doc))
         IN  Then(checkSummary(filename, node, FirstLine(node.doc)),
                  IF sections # <<>>
                  THEN checkArgLines(filename, node, Split(sections[1], "\n"), 1)
                  ELSE Returned(<<>>))
    ELSE Returned(<<toString(filename, node, MsgMissingDocstring(node.name))>>)

----------------------------------------------------------------------------
(* The visitor                                                             *)
(*                                                                         *)
(* A node is a record with the fields the visitor reads: type, lineno,     *)
(* body (the children generic_visit iterates, in field order) and, by      *)
(* type, name / hasDoc / doc / args / returns (FunctionDef, ClassDef) or   *)
(* id / ctx (Name).  An args record holds posonlyargs, args, vararg,       *)
(* kwonlyargs, kw_defaults, kwarg and defaults as ast.arguments does; a    *)
(* parameter is [arg, annotation], annotation being whether one is given;  *)
(* a default is the type of its expression node.                           *)

\* self.special_methods
special_methods ==
    {
      <<"_","_","i","n","i","t","_","_">>, <<"_","_","d","e","l","_","_">>,
      <<"_","_","r","e","p","r","_","_">>, <<"_","_","s","t","r","_","_">>,
      <<"_","_","b","y","t","e","s","_","_">>, <<"_","_","f","o","r","m","a","t","_","_">>,
      <<"_","_","l","t","_","_">>, <<"_","_","l","e","_","_">>, <<"_","_","e","q","_","_">>,
      <<"_","_","n","e","_","_">>, <<"_","_","g","t","_","_">>, <<"_","_","g","e","_","_">>,
      <<"_","_","h","a","s","h","_","_">>, <<"_","_","b","o","o","l","_","_">>,
      <<"_","_","c","a","l","l","_","_">>, <<"_","_","l","e","n","_","_">>,
      <<"_","_","g","e","t","i","t","e","m","_","_">>,
      <<"_","_","s","e","t","i","t","e","m","_","_">>,
      <<"_","_","d","e","l","i","t","e","m","_","_">>, <<"_","_","i","t","e","r","_","_">>,
      <<"_","_","n","e","x","t","_","_">>, <<"_","_","r","e","v","e","r","s","e","d","_","_">>,
      <<"_","_","c","o","n","t","a","i","n","s","_","_">>, <<"_","_","a","d","d","_","_">>,
      <<"_","_","s","u","b","_","_">>, <<"_","_","m","u","l","_","_">>,
      <<"_","_","m","a","t","m","u","l","_","_">>,
      <<"_","_","t","r","u","e","d","i","v","_","_">>,
      <<"_","_","f","l","o","o","r","d","i","v","_","_">>, <<"_","_","m","o","d","_","_">>,
      <<"_","_","d","i","v","m","o","d","_","_">>, <<"_","_","p","o","w","_","_">>,
      <<"_","_","l","s","h","i","f","t","_","_">>, <<"_","_","r","s","h","i","f","t","_","_">>,
      <<"_","_","a","n","d","_","_">>, <<"_","_","x","o","r","_","_">>,
      <<"_","_","o","r","_","_">>, <<"_","_","i","a","d","d","_","_">>,
      <<"_","_","i","s","u","b","_","_">>, <<"_","_","i","m","u","l","_","_">>,
      <<"_","_","i","m","a","t","m","u","l","_","_">>,
      <<"_","_","i","t","r","u","e","d","i","v","_","_">>,
      <<"_","_","i","f","l","o","o","r","d","i","v","_","_">>,
      <<"_","_","i","m","o","d","_","_">>, <<"_","_","i","p","o","w","_","_">>,
      <<"_","_","i","l","s","h","i","f","t","_","_">>,
      <<"_","_","i","r","s","h","i","f","t","_","_">>, <<"_","_","i","a","n","d","_","_">>,
      <<"_","_","i","x","o","r","_","_">>, <<"_","_","i","o","r","_","_">>,
      <<"_","_","n","e","g","_","_">>, <<"_","_","p","o","s","_","_">>,
      <<"_","_","a","b","s","_","_">>, <<"_","_","i","n","v","e","r","t","_","_">>,
      <<"_","_","c","o","m","p","l","e","x","_","_">>, <<"_","_","i","n","t","_","_">>,
      <<"_","_","f","l","o","a","t","_","_">>, <<"_","_","r","o","u","n","d","_","_">>,
      <<"_","_","i","n","d","e","x","_","_">>, <<"_","_","e","n","t","e","r","_","_">>,
      <<"_","_","e","x","i","t","_","_">>, <<"_","_","a","w","a","i","t","_","_">>,
      <<"_","_","a","i","t","e","r","_","_">>, <<"_","_","a","n","e","x","t","_","_">>,
      <<"_","_","a","e","n","t","e","r","_","_">>, <<"_","_","a","e","x","i","t","_","_">>,
      <<"_","_","v","e","r","s","i","o","n","_","_">>
    }

MsgFunctionNotCamel(name) == <<"Function '">> \o name \o <<"'  is not in camel case.">>
MsgFunctionDunder(name) == <<"Function '">> \o name \o <<"'  uses '__' inappropriately.">>
MsgNoAnnotation(name, a) ==
    <<"Function '">> \o name \o <<"'  has parameter '">> \o a \o <<"' without type annotation.">>
MsgParameterNotCamel(name, a) ==
    <<"Function '">> \o name \o <<"'  has parameter '">> \o a \o <<"' that is not in camel case.">>
MsgMutableDefault(name) == <<"Function '">> \o name \o <<"' has a mutable default argument.">>
MsgNoReturn(name) == <<"Function '">> \o name \o <<"'  is missing a return type annotation.">>
MsgClassNotPascal(name) == <<"Class '">> \o name \o <<"' is not in Pascal case.">>
MsgVariableDunder(name) == <<"Variable '">> \o name \o <<"'  uses '__' inappropriately.">>
MsgVariableNotCamel(name) == <<"Variable '">> \o name \o <<"' is not in camel case.">>

\* the parameters the loop of line 123 iterates
ScannedParameters(node) == node.args.args

\* the default values the loop of line 130 iterates
ScannedDefaults(node) == node.args.defaults

\* lines 124-128, one pass of the loop over the parameters
checkParameter(filename, ignore, node, a) ==
    Then(AppendIf(/\ ~a.annotation
                  /\ a.arg # <<"s","e","l","f">>
                  /\ a.arg # <<"c","l","s">>
                  /\ ~Contains(a.arg, <<"*">>)
                  /\ ~Contains(a.arg, <<"*","*">>),
                  filename, node, MsgNoAnnotation(node.name, a.arg)),
         AppendIf(~isValidFormat(a.arg, "None", ignore),
                  filename, node, MsgParameterNotCamel(node.name, a.arg)))

RECURSIVE checkParameters(_, _, _, _, _)
checkParameters(filename, ignore, node, params, i) ==
    IF i > Len(params) THEN Returned(<<>>)
    ELSE Then(checkParameter(filename, ignore, node, params[i]),
              checkParameters(filename, ignore, node, params, i + 1))

\* lines 131-132, one pass of the loop over the defaults
checkDefault(filename, node, default) ==
    AppendIf(default = "Dict" \/ default = "List" \/ default = "Set",
             filename, node, MsgMutableDefault(node.name))

RECURSIVE checkDefaults(_, _, _, _)
checkDefaults(filename, node, defaults, i) ==
    IF i > Len(defaults) THEN Returned(<<>>)
    ELSE Then(checkDefault(filename, node, defaults[i]),
              checkDefaults(filename, node, defaults, i + 1))

\* lines 115-136: what visit_FunctionDef appends for the node itself
FunctionDefChecks(filename, ignore, node) ==
    Then(checkDocstring(filename, node),
    Then(AppendIf(~isValidFormat(node.name, "None", ignore),
                  filename, node, MsgFunctionNotCamel(node.name)),
    Then(AppendIf(Contains(node.name, <<"_","_">>) /\ node.name \notin special_methods,
                  filename, node, MsgFunctionDunder(node.name)),
    Then(checkParameters(filename, ignore, node, ScannedParameters(node), 1),
    Then(checkDefaults(filename, node, ScannedDefaults(node), 1),
         AppendIf(~node.returns, filename, node, MsgNoReturn(node.name)))))))

\* lines 146-148: what visit_ClassDef appends for the node itself
ClassDefChecks(filename, ignore, node) ==
    Then(AppendIf(~isValidFormat(node.name, "class", ignore),
                  filename, node, MsgClassNotPascal(node.name)),
         checkDocstring(filename, node))

\* lines 202-206: what visit_Name appends
NameChecks(filename, ignore, node) ==
    IF node.ctx \in {"Store", "Param"}
    THEN Then(AppendIf(Contains(node.id, <<"_","_">>) /\ node.id \notin special_methods,
                       filename, node, MsgVariableDunder(node.id)),
              AppendIf(~isValidFormat(node.id, "None", ignore),
                       filename, node, MsgVariableNotCamel(node.id)))
    ELSE Returned(<<>>)

RECURSIVE visit(_, _, _)
RECURSIVE visitChildren(_, _, _, _)

\* ast.NodeVisitor.generic_visit(node): visit every child, in field order
generic_visit(filename, ignore, node) == visitChildren(filename, ignore, node.body, 1)

\* visit_FunctionDef with generic_visit ahead of the node's own checks
visit_FunctionDef_childrenFirst(filename, ignore, node) ==
    Then(generic_visit(filename, ignore, node), FunctionDefChecks(filename, ignore, node))

visit_FunctionDef(filename, ignore, node) ==
    Then(FunctionDefChecks(filename, ignore, node), generic_visit(filename, ignore, node))

visit_ClassDef(filename, ignore, node) ==
    Then(ClassDefChecks(filename, ignore, node), generic_visit(filename, ignore, node))

visit_Name(filename, ignore, node) ==
    Then(NameChecks(filename, ignore, node), generic_visit(filename, ignore, node))

\* ast.NodeVisitor.visit(node): dispatch on the node's class name; a class
\* without a visit_ method of its own (Module, Assign, AsyncFunctionDef, ...)
\* goes to generic_visit
visit(filename, ignore, node) ==
    IF node.type = "FunctionDef" THEN visit_FunctionDef(filename, ignore, node)
    ELSE IF node.type = "ClassDef" THEN visit_ClassDef(filename, ignore, node)
    ELSE IF node.type = "Name" THEN visit_Name(filename, ignore, node)
    ELSE generic_visit(filename, ignore, node)

visitChildren(filename, ignore, children, i) ==
    IF i > Len(children) THEN Returned(<<>>)
    ELSE Then(visit(filename, ignore, children[i]),
              visitChildren(filename, ignore, children, i + 1))

----------------------------------------------------------------------------
(* checkFile                                                               *)

\* checkFile(filename): a file is [path, parses, tree]; ast.parse raises
\* SyntaxError when the text does not parse, and an exception of the visit
\* leaves checkFile before `return checker.errors`
checkFile(file, ignore) ==
    IF ~file.parses THEN Raised(<<>>, "SyntaxError")
    ELSE LET visited == visit(file.path, ignore, file.tree)
         IN  IF visited.raised # "None" THEN Raised(<<>>, visited.raised)
             ELSE visited

----------------------------------------------------------------------------
(* Inputs                                                                  *)

MaxNameLen == 4
MaxSummaryLen == 3
MaxDefLen == 4
MaxParams == 2
MaxNodes == 3
MaxFiles == 2

SeqsUpTo(S, n) == UNION {[1..k -> S] : k \in 0..n}

\* identifiers: one lower-case letter, one upper-case letter, one digit, '_'
NameAlphabet == {"a", "A", "0", "_"}
Names == SeqsUpTo(NameAlphabet, MaxNameLen) \ {<<>>}

\* the names a .standardignore file may exempt
IgnoreCandidates == {<<"a","_","a">>, <<"a","A">>}

FileName(i) == <<"./m">> \o Str(i) \o <<".py">>

NoArguments ==
    [posonlyargs |-> <<>>, args |-> <<>>, vararg |-> <<>>, kwonlyargs |-> <<>>,
     kw_defaults |-> <<>>, kwarg |-> <<>>, defaults |-> <<>>]

FunctionDef(name, lineno, hasDoc, doc, args, returns, body) ==
    [type |-> "FunctionDef", name |-> name, lineno |-> lineno, hasDoc |-> hasDoc,
     doc |-> doc, args |-> args, returns |-> returns, body |-> body]

ClassDef(name, lineno, hasDoc, doc, body) ==
    [type |-> "ClassDef", name |-> name, lineno |-> lineno, hasDoc |-> hasDoc,
     doc |-> doc, body |-> body]

Name(id, ctx, lineno) ==
    [type |-> "Name", id |-> id, ctx |-> ctx, lineno |-> lineno, body |-> <<>>]

Other(type, body) == [type |-> type, body |-> body]

ArgsHeader == <<"A","r","g","s",":">>
BlankLine == <<"\n","\n">>

\* docstrings as ast.get_docstring returns them: no leading white space, no
\* leading or trailing empty line.  Either a summary over {S . : space},
\* alone or followed (after a blank line, a line break or nothing) by an
\* Args section; or a good summary and an Args section whose one line has a
\* definition over {x X . ; : space}.
SummaryTexts ==
    {s \in SeqsUpTo({"S", ".", ":", " "}, MaxSummaryLen) : s = <<>> \/ s[1] # " "}

DefinitionTexts == SeqsUpTo({"x", "X", ".", ";", ":", " "}, MaxDefLen)

ArgsSection(header, definition) == header \o <<"\n", " ", "a", ":">> \o definition

Docstrings ==
    SummaryTexts
    \cup {s \o sep \o ArgsSection(h, <<" ","x">>) :
            s \in SummaryTexts \ {<<>>}, sep \in {BlankLine, <<"\n">>, <<" ">>},
            h \in {ArgsHeader, <<"r","e","t","u","r","n","s",":">>}}
    \cup {ArgsSection(ArgsHeader, d) : d \in {<<" ","x">>, <<" ","X",".">>}}
    \cup {<<"S",".">> \o BlankLine \o ArgsSection(ArgsHeader, d) : d \in DefinitionTexts}

DocNodes ==
    {FunctionDef(<<"f">>, ln, TRUE, d, NoArguments, TRUE, <<>>) :
        ln \in {3, 12}, d \in Docstrings}
    \cup {FunctionDef(<<"f">>, 3, FALSE, <<>>, NoArguments, TRUE, <<>>)}

\* parameter lists as the grammar allows them: positional-only, then
\* positional, then keyword-only parameters; distinct names; no positional
\* parameter without a default after one with a default
ParameterNames == {<<"s","e","l","f">>, <<"a">>, <<"b","_","c">>}

Parameters ==
    [kind : {"posonly", "pos", "kwonly"}, arg : ParameterNames,
     annotation : BOOLEAN, default : {"None", "Dict", "Constant"}]

KindRank(kind) == CASE kind = "posonly" -> 1 [] kind = "pos" -> 2 [] kind = "kwonly" -> 3

ParameterLists ==
    {ps \in SeqsUpTo(Parameters, MaxParams) :
        \A i, j \in DOMAIN ps :
            i < j =>
                /\ ps[i].arg # ps[j].arg
                /\ KindRank(ps[i].kind) <= KindRank(ps[j].kind)
                /\ (ps[j].kind # "kwonly" /\ ps[i].default # "None")
                       => ps[j].default # "None"}

AsArg(p) == [arg |-> p.arg, annotation |-> p.annotation]

OfKind(ps, kind) ==
    LET IsKind(p) == p.kind = kind
        sel == SelectSeq(ps, IsKind)
    IN  [i \in DOMAIN sel |-> AsArg(sel[i])]

\* the ast.arguments of a parameter list, as the parser builds it
Arguments(ps, variadic) ==
    LET HasPositionalDefault(p) == p.kind # "kwonly" /\ p.default # "None"
        IsKeywordOnly(p) == p.kind = "kwonly"
        withDefault == SelectSeq(ps, HasPositionalDefault)
        keywordOnly == SelectSeq(ps, IsKeywordOnly)
    IN  [posonlyargs |-> OfKind(ps, "posonly"),
         args        |-> OfKind(ps, "pos"),
         vararg      |-> IF variadic
                         THEN <<[arg |-> <<"a","r","g","s">>, annotation |-> FALSE]>>
                         ELSE <<>>,
         kwonlyargs  |-> OfKind(ps, "kwonly"),
         kw_defaults |-> [i \in DOMAIN keywordOnly |-> keywordOnly[i].default],
         kwarg       |-> IF variadic
                         THEN <<[arg |-> <<"k","w","a","r","g","s">>, annotation |-> FALSE]>>
                         ELSE <<>>,
         defaults    |-> [i \in DOMAIN withDefault |-> withDefault[i].default]]

FunctionNodes ==
    {FunctionDef(<<"f">>, 7, TRUE, <<"S",".">>, Arguments(ps, variadic), returns, <<>>) :
        ps \in ParameterLists, variadic \in BOOLEAN, returns \in BOOLEAN}

\* the declarations and bindings a tree of the model is made of: three
\* functions, a class, a statement of a class without a visit_ method of its
\* own ("A"), and a bound name in such a statement ("N")
RaisingDocstring ==
    <<"S",".">> \o BlankLine \o ArgsSection(ArgsHeader, <<" ","x",";"," ",";","y">>)

Payload(label, lineno, body) ==
    CASE label = "F" ->
            FunctionDef(<<"a","_","a">>, lineno, FALSE, <<>>,
                        Arguments(<<[kind |-> "pos", arg |-> <<"x">>, annotation |-> FALSE,
                                     default |-> "Dict"]>>, FALSE),
                        FALSE, body)
      [] label = "G" ->
            FunctionDef(<<"g">>, lineno, TRUE, RaisingDocstring, NoArguments, TRUE, body)
      [] label = "H" ->
            FunctionDef(<<"h">>, lineno, TRUE, <<"S",".">>, NoArguments, TRUE, body)
      [] label = "C" ->
            ClassDef(<<"a","A">>, lineno, TRUE, <<"S">>, body)
      [] label = "A" -> Other("If", body)
      [] label = "N" -> Name(<<"A","_","a">>, "Store", lineno)

Labels == {"F", "G", "H", "C", "A", "N"}

RECURSIVE IsAncestorOrSelf(_, _, _)
IsAncestorOrSelf(parent, a, k) ==
    a = k \/ (k > 0 /\ IsAncestorOrSelf(parent, a, parent[k]))

\* node k is on line k: the nodes are numbered in source order, so the
\* parent of node k + 1 is node k or one of its ancestors (0 is the Module)
TreeShapes ==
    UNION {{t \in [parent : [1..n -> 0..(n - 1)], label : [1..n -> Labels]] :
              /\ \A k \in 1..n : t.parent[k] < k
              /\ \A k \in 1..(n - 1) : IsAncestorOrSelf(t.parent, t.parent[k + 1], k)
              /\ \A k \in 1..n :
                    t.label[k] = "N" =>
                        /\ t.parent[k] > 0
                        /\ t.label[t.parent[k]] = "A"
                        /\ \A c \in 1..n : t.parent[c] # k}
           : n \in 1..MaxNodes}

RECURSIVE SortedSeq(_)
SortedSeq(S) ==
    IF S = {} THEN <<>>
    ELSE LET m == CHOOSE x \in S : \A y \in S : x <= y
         IN  <<m>> \o SortedSeq(S \ {m})

RECURSIVE Subtree(_, _)
Subtree(t, k) ==
    LET children == SortedSeq({c \in DOMAIN t.parent : t.parent[c] = k})
        body == [i \in DOMAIN children |-> Subtree(t, children[i])]
    IN  IF k = 0 THEN Other("Module", body) ELSE Payload(t.label[k], k, body)

Trees == {Subtree(t, 0) : t \in TreeShapes}

\* what a discovered file may hold
FileContents ==
    { [parses |-> FALSE, tree |-> Other("Module", <<>>)] }
    \cup { [parses |-> TRUE, tree |-> Other("Module", body)] :
            body \in { <<>>,
                       <<Payload("H", 1, <<>>)>>,
                       <<Payload("C", 1, <<Payload("F", 2, <<>>)>>)>>,
                       <<Payload("A", 1, <<Payload("N", 1, <<>>)>>), Payload("H", 2, <<>>)>>,
                       <<Payload("G", 1, <<>>)>> } }

FileLists ==
    {[i \in DOMAIN cs |-> [path |-> FileName(i), parses |-> cs[i].parses, tree |-> cs[i].tree]] :
        cs \in SeqsUpTo(FileContents, MaxFiles)}

----------------------------------------------------------------------------
(* The unit specifications: one call of a method on a drawn input          *)

mainIdle ==
    /\ files = <<>>
    /\ fileIdx = 0
    /\ errors = <<>>
    /\ stdout = <<>>
    /\ exitStatus = -1
    /\ raised = "None"

mainVars == <<files, fileIdx, errors, stdout, exitStatus, raised>>

InitFormat ==
    /\ fn = "isValidFormat"
    /\ arg \in [name : Names, type : {"class", "None"}]
    /\ itemsToIgnore \in SUBSET IgnoreCandidates
    /\ ret = FALSE
    /\ pc = "call"
    /\ mainIdle

CallIsValidFormat ==
    /\ pc = "call"
    /\ fn = "isValidFormat"
    /\ ret' = isValidFormat(arg.name, arg.type, itemsToIgnore)
    /\ pc' = "done"
    /\ UNCHANGED <<fn, arg, itemsToIgnore, mainVars>>

NextFormat == CallIsValidFormat

SpecFormat == InitFormat /\ [][NextFormat]_vars

InitDoc ==
    /\ fn = "checkDocstring"
    /\ arg \in [filename : {FileName(1)}, node : DocNodes]
    /\ itemsToIgnore = {}
    /\ ret = Returned(<<>>)
    /\ pc = "call"
    /\ mainIdle

CallCheckDocstring ==
    /\ pc = "call"
    /\ fn = "checkDocstring"
    /\ ret' = checkDocstring(arg.filename, arg.node)
    /\ pc' = "done"
    /\ UNCHANGED <<fn, arg, itemsToIgnore, mainVars>>

NextDoc == CallCheckDocstring

SpecDoc == InitDoc /\ [][NextDoc]_vars

InitFunc ==
    /\ fn = "visit_FunctionDef"
    /\ arg \in [filename : {FileName(1)}, node : FunctionNodes]
    /\ itemsToIgnore \in {{}, {<<"b","_","c">>}}
    /\ ret = Returned(<<>>)
    /\ pc = "call"
    /\ mainIdle

CallVisitFunctionDef ==
    /\ pc = "call"
    /\ fn = "visit_FunctionDef"
    /\ ret' = visit_FunctionDef(arg.filename, itemsToIgnore, arg.node)
    /\ pc' = "done"
    /\ UNCHANGED <<fn, arg, itemsToIgnore, mainVars>>

NextFunc == CallVisitFunctionDef

SpecFunc == InitFunc /\ [][NextFunc]_vars

InitVisit ==
    /\ fn = "visit"
    /\ arg \in [filename : {FileName(1)}, node : Trees]
    /\ itemsToIgnore \in SUBSET IgnoreCandidates
    /\ ret = Returned(<<>>)
    /\ pc = "call"
    /\ mainIdle

CallVisit ==
    /\ pc = "call"
    /\ fn = "visit"
    /\ ret' = visit(arg.filename, itemsToIgnore, arg.node)
    /\ pc' = "done"
    /\ UNCHANGED <<fn, arg, itemsToIgnore, mainVars>>

NextVisit == CallVisit

SpecVisit == InitVisit /\ [][NextVisit]_vars

----------------------------------------------------------------------------
(* main                                                                    *)

Init ==
    /\ fn = "main"
    /\ arg = <<>>
    /\ ret = Returned(<<>>)
    /\ itemsToIgnore \in SUBSET IgnoreCandidates
    /\ files \in FileLists
    /\ fileIdx = 0
    /\ errors = <<>>
    /\ stdout = <<>>
    /\ exitStatus = -1
    /\ raised = "None"
    /\ pc = "walk"

\* line 268, checkFile returns: errors.extend(checkFile(filePath))
CheckFileReturns ==
    /\ pc = "walk"
    /\ fileIdx < Len(files)
    /\ LET checked == checkFile(files[fileIdx + 1], itemsToIgnore)
       IN  /\ checked.raised = "None"
           /\ errors' = errors \o checked.errs
    /\ fileIdx' = fileIdx + 1
    /\ UNCHANGED <<fn, arg, ret, itemsToIgnore, files, stdout, exitStatus, raised, pc>>

\* line 268, checkFile raises: nothing catches the exception, the
\* interpreter prints the traceback to stderr and exits with status 1
CheckFileRaises ==
    /\ pc = "walk"
    /\ fileIdx < Len(files)
    /\ LET checked == checkFile(files[fileIdx + 1], itemsToIgnore)
       IN  /\ checked.raised # "None"
           /\ raised' = checked.raised
    /\ exitStatus' = 1
    /\ pc' = "exited"
    /\ UNCHANGED <<fn, arg, ret, itemsToIgnore, files, fileIdx, errors, stdout>>

\* line 270, the walk is over and errors is not empty
BeginPrint ==
    /\ pc = "walk"
    /\ fileIdx = Len(files)
    /\ errors # <<>>
    /\ pc' = "print"
    /\ UNCHANGED <<fn, arg, ret, itemsToIgnore, files, fileIdx, errors, stdout, exitStatus, raised>>

\* lines 271-272, one pass of the loop: print(error)
PrintError ==
    /\ pc = "print"
    /\ Len(stdout) < Len(errors)
    /\ stdout' = Append(stdout, errors[Len(stdout) + 1])
    /\ UNCHANGED <<fn, arg, ret, itemsToIgnore, files, fileIdx, errors, exitStatus, raised, pc>>

\* line 273: sys.exit(1)
ExitFailure ==
    /\ pc = "print"
    /\ Len(stdout) = Len(errors)
    /\ exitStatus' = 1
    /\ pc' = "exited"
    /\ UNCHANGED <<fn, arg, ret, itemsToIgnore, files, fileIdx, errors, stdout, raised>>

\* lines 274-275: print("All checks passed."), and main returns
PrintPassed ==
    /\ pc = "walk"
    /\ fileIdx = Len(files)
    /\ errors = <<>>
    /\ stdout' = Append(stdout, <<"All checks passed.">>)
    /\ exitStatus' = 0
    /\ pc' = "exited"
    /\ UNCHANGED <<fn, arg, ret, itemsToIgnore, files, fileIdx, errors, raised>>

Next ==
    \/ CheckFileReturns
    \/ CheckFileRaises
    \/ BeginPrint
    \/ PrintError
    \/ ExitFailure
    \/ PrintPassed

Spec == Init /\ [][Next]_vars

----------------------------------------------------------------------------
(* Claims                                                                  *)

\* the elements of a sequence
Range(s) == {s[i] : i \in DOMAIN s}

\* the number of positions of s that hold x
Count(s, x) == Cardinality({i \in DOMAIN s : s[i] = x})

Alnum == Upper \cup Lower \cup Digit

\* a lower-case letter or digit first, then letters and digits only: each
\* upper-case letter opens a group of its own, so the rest always divides
\* into UpperThenLowers groups
CamelShape(name) ==
    /\ name[1] \in Lower \cup Digit
    /\ \A k \in DOMAIN name : name[k] \in Alnum

\* an upper-case letter first, then at least one letter or digit, and
\* letters and digits only
PascalShape(name) ==
    /\ name[1] \in Upper
    /\ Len(name) >= 2
    /\ \A k \in DOMAIN name : name[k] \in Alnum

\* the verdict of the first rule of the list that matches
FirstRuleVerdict(name, type, ignore) ==
    CASE name \in ignore -> TRUE
      [] name \notin ignore /\ Range(name) \subseteq Upper -> TRUE
      [] name \notin ignore /\ ~(Range(name) \subseteq Upper) /\ name[1] = "_" -> TRUE
      [] name \notin ignore /\ ~(Range(name) \subseteq Upper) /\ name[1] # "_"
            /\ "_" \in Range(name) -> Range(name) \subseteq Upper \cup {"_"}
      [] OTHER -> IF type = "class" THEN PascalShape(name) ELSE CamelShape(name)

\* C1: for every non-empty name over the alphabet, every ignore set and both
\* kinds, isValidFormat returns the verdict of the first matching rule:
\* ignored, all upper case, leading '_', '_'-separated upper-case segments,
\* and else the PascalCase (class) or camelCase (other) shape.
C1_FirstMatchingRule ==
    (fn = "isValidFormat" /\ pc = "done")
        => ret = FirstRuleVerdict(arg.name, arg.type, itemsToIgnore)

\* C1: a name with an inner '_' and a segment that is not upper case, not
\* exempted, was rejected by rule 4
C1_Witness ==
    /\ fn = "isValidFormat"
    /\ pc = "done"
    /\ arg.name \notin itemsToIgnore
    /\ arg.name[1] # "_"
    /\ "_" \in Range(arg.name)
    /\ ret = FALSE

\* the mutable-literal defaults a function declares, of any parameter kind
MutableDefaults(node) ==
    Cardinality({i \in DOMAIN node.args.defaults :
                    node.args.defaults[i] \in {"Dict", "List", "Set"}})
    + Cardinality({i \in DOMAIN node.args.kw_defaults :
                    node.args.kw_defaults[i] \in {"Dict", "List", "Set"}})

\* C2: visiting a function appends one "has a mutable default argument"
\* diagnostic for every parameter default that is a mapping, sequence or set
\* literal, whatever the kind of the parameter.
C2_EveryMutableDefault ==
    (fn = "visit_FunctionDef" /\ pc = "done")
        => Count(ret.errs, toString(arg.filename, arg.node, MsgMutableDefault(arg.node.name)))
             = MutableDefaults(arg.node)

\* C6: visiting a function appends "has parameter '<name>' without type
\* annotation" for every declared parameter (positional-only, positional or
\* keyword-only) that has no annotation and is not self or cls; self, cls and
\* the variadic parameters never get it.
C6_EveryParameter ==
    (fn = "visit_FunctionDef" /\ pc = "done")
        => LET a == arg.node.args
               declared == a.posonlyargs \o a.args \o a.kwonlyargs
               variadic == a.vararg \o a.kwarg
               Diagnostic(p) ==
                   toString(arg.filename, arg.node, MsgNoAnnotation(arg.node.name, p.arg))
               IsReceiver(p) == p.arg \in {<<"s","e","l","f">>, <<"c","l","s">>}
           IN  /\ \A i \in DOMAIN declared :
                    (~declared[i].annotation /\ ~IsReceiver(declared[i]))
                        => Diagnostic(declared[i]) \in Range(ret.errs)
               /\ \A i \in DOMAIN declared :
                    IsReceiver(declared[i]) => Diagnostic(declared[i]) \notin Range(ret.errs)
               /\ \A i \in DOMAIN variadic : Diagnostic(variadic[i]) \notin Range(ret.errs)

IsDeclaration(node) == node.type \in {"FunctionDef", "ClassDef"}

\* what the visitor appends for a node itself, children aside
OwnChecks(filename, ignore, node) ==
    CASE node.type = "FunctionDef" -> FunctionDefChecks(filename, ignore, node)
      [] node.type = "ClassDef" -> ClassDefChecks(filename, ignore, node)
      [] node.type = "Name" -> NameChecks(filename, ignore, node)
      [] OTHER -> Returned(<<>>)

\* the nodes of a tree, in source order
RECURSIVE NodesOf(_)
RECURSIVE NodesOfAll(_, _)
NodesOf(node) == <<node>> \o NodesOfAll(node.body, 1)
NodesOfAll(children, i) ==
    IF i > Len(children) THEN <<>>
    ELSE NodesOf(children[i]) \o NodesOfAll(children, i + 1)

\* C5: the visit of a parsed tree never raises, and every function, class
\* and stored name of the tree is checked: whatever a node's own checks
\* find is in the list, whatever the declarations before it produced.
C5_VisitCompletes ==
    (fn = "visit" /\ pc = "done")
        => /\ ret.raised = "None"
           /\ LET nodes == NodesOf(arg.node)
              IN  \A i \in DOMAIN nodes :
                    LET own == OwnChecks(arg.filename, itemsToIgnore, nodes[i])
                    IN  own.raised = "None" => Range(own.errs) \subseteq Range(ret.errs)

\* the number a run of digit characters spells
RECURSIVE Number(_)
Number(digits) ==
    IF digits = <<>> THEN 0
    ELSE 10 * Number(SubSeq(digits, 1, Len(digits) - 1))
         + (CHOOSE d \in 0..9 : Str(d) = <<digits[Len(digits)]>>)

\* the line a printed diagnostic names: the digits between its first ":"
\* and its first ": "
LineOf(diagnostic) ==
    Number(Slice(diagnostic, Find(diagnostic, <<":">>) + 1, Find(diagnostic, <<": ">>) - 1))

\* the lines of the nodes of a tree that carry a line
RECURSIVE LinesIn(_)
LinesIn(node) ==
    (IF node.type \in {"FunctionDef", "ClassDef", "Name"} THEN {node.lineno} ELSE {})
    \cup UNION {LinesIn(node.body[i]) : i \in DOMAIN node.body}

\* the pairs <<first, second>> of lines the claimed order relates: a
\* declaration and a node nested in its body; two sibling declarations, in
\* source order
RECURSIVE MustPrecede(_)
MustPrecede(node) ==
    (IF IsDeclaration(node)
     THEN {<<node.lineno, l>> : l \in UNION {LinesIn(node.body[i]) : i \in DOMAIN node.body}}
     ELSE {})
    \cup {<<node.body[i].lineno, node.body[j].lineno>> :
            <<i, j>> \in {x \in (DOMAIN node.body) \X (DOMAIN node.body) :
                            /\ x[1] < x[2]
                            /\ IsDeclaration(node.body[x[1]])
                            /\ IsDeclaration(node.body[x[2]])}}
    \cup UNION {MustPrecede(node.body[i]) : i \in DOMAIN node.body}

ArgLines(docstring) ==
    LET sections == Tail(SplitSections(docstring))
    IN  IF sections = <<>> THEN <<>> ELSE Split(sections[1], "\n")

HasBlankLine(docstring) == \E i \in 1..(Len(docstring) - 1) : docstring[i] = "\n" /\ docstring[i + 1] = "\n"

\* the text before the first blank line
BeforeBlankLine(docstring) ==
    LET first == CHOOSE i \in 1..(Len(docstring) - 1) :
                    /\ docstring[i] = "\n" /\ docstring[i + 1] = "\n"
                    /\ \A k \in 1..(i - 1) : ~(docstring[k] = "\n" /\ docstring[k + 1] = "\n")
    IN  Slice(docstring, 1, first - 1)

\* the summary diagnostics are the ones the summary calls for
SummaryDiagnosed(summary) ==
    LET missing == toString(arg.filename, arg.node, MsgDescriptionMissing(arg.node.name))
        noPeriod == toString(arg.filename, arg.node, MsgNoPeriod(arg.node.name))
        hasColon == ":" \in Range(summary)
    IN  /\ missing \in Range(ret.errs) <=> (summary = <<>> \/ hasColon)
        /\ noPeriod \in Range(ret.errs) <=> (~hasColon /\ ~EndsWith(summary, "."))

\* C7 as stated: the summary is the text up to the first blank line, and
\* with no blank line the text before the first section header; "docstring
\* description is missing" is emitted exactly when it is empty or holds a
\* colon, "does not end with a period" exactly when it holds no colon and
\* does not end with '.'.
C7_SummaryBeforeHeader ==
    (fn = "checkDocstring" /\ pc = "done" /\ arg.node.hasDoc /\ arg.node.doc # <<>>)
        => SummaryDiagnosed(
              Strip(IF HasBlankLine(arg.node.doc) THEN BeforeBlankLine(arg.node.doc)
                    ELSE SplitSections(arg.node.doc)[1]))

\* C7, amended: the summary is the text up to the first blank line, and with
\* no blank line the whole docstring; the two diagnostics are emitted as
\* stated; so a docstring with a section header and no blank line gets
\* "docstring description is missing" and never the period diagnostic.
C7_SummaryWholeDocstring ==
    (fn = "checkDocstring" /\ pc = "done" /\ arg.node.hasDoc /\ arg.node.doc # <<>>)
        => /\ SummaryDiagnosed(
                Strip(IF HasBlankLine(arg.node.doc) THEN BeforeBlankLine(arg.node.doc)
                      ELSE arg.node.doc))
           /\ (~HasBlankLine(arg.node.doc) /\ Len(SplitSections(arg.node.doc)) > 1)
                 => /\ toString(arg.filename, arg.node, MsgDescriptionMissing(arg.node.name))
                          \in Range(ret.errs)
                    /\ toString(arg.filename, arg.node, MsgNoPeriod(arg.node.name))
                          \notin Range(ret.errs)

\* C7: a summary ending in a period, a line break and at once the Args
\* header was checked, and "docstring description is missing" came out
C7_Witness ==
    /\ fn = "checkDocstring"
    /\ pc = "done"
    /\ arg.node.hasDoc
    /\ ~HasBlankLine(arg.node.doc)
    /\ SplitSections(arg.node.doc)[1] = <<"S", ".", "\n">>
    /\ toString(arg.filename, arg.node, MsgDescriptionMissing(arg.node.name)) \in Range(ret.errs)

\* the text of a line after its first colon, trimmed
AfterFirstColon(line) ==
    LET l == Strip(line)
    IN  Strip(Slice(l, Find(l, <<":">>) + 1, Len(l)))

\* C8: for every line of the first section segment that holds a colon (and
\* no ';', whose clauses are C9's), the capital-letter diagnostic is emitted
\* exactly when the whole trimmed text after the line's first colon starts
\* with an upper-case letter, and the "invalid ending character(.)"
\* diagnostic exactly when that text ends with a period.
C8_WholeTextAfterFirstColon ==
    (fn = "checkDocstring" /\ pc = "done" /\ arg.node.hasDoc)
        => LET lines == ArgLines(arg.node.doc)
           IN  \A n \in DOMAIN lines :
                 (":" \in Range(lines[n]) /\ ";" \notin Range(lines[n]))
                    => LET definition == AfterFirstColon(lines[n])
                           emitted == Range(checkArgLine(arg.filename, arg.node, lines[n]).errs)
                       IN  /\ toString(arg.filename, arg.node, MsgCapital(arg.node.name)) \in emitted
                                <=> (definition # <<>> /\ IsUpperChar(definition[1]))
                           /\ toString(arg.filename, arg.node, MsgEndingPeriod(arg.node.name)) \in emitted
                                <=> EndsWith(definition, ".")

\* C9: for every argument-definition line, a ';' followed by an empty clause
\* (nothing, or white space only) gets the line a diagnostic, and a non-empty
\* clause after a ';' gets the capital-letter diagnostic when it starts
\* upper case and the ending-period diagnostic when it ends with '.'.
C9_EmptyClauseDiagnosed ==
    (fn = "checkDocstring" /\ pc = "done" /\ arg.node.hasDoc)
        => LET lines == ArgLines(arg.node.doc)
           IN  \A n \in DOMAIN lines :
                 (Strip(lines[n]) # <<>> /\ ":" \in Range(lines[n]))
                    => LET clauses == Split(ArgumentDefinition(lines[n]), ";")
                           emitted == checkArgLine(arg.filename, arg.node, lines[n]).errs
                       IN  \A k \in 2..Len(clauses) :
                             LET clause == Strip(clauses[k])
                             IN  IF clause = <<>> THEN emitted # <<>>
                                 ELSE /\ IsUpperChar(clause[1])
                                          => toString(arg.filename, arg.node, MsgCapital(arg.node.name))
                                                \in Range(emitted)
                                      /\ EndsWith(clause, ".")
                                          => toString(arg.filename, arg.node, MsgEndingPeriod(arg.node.name))
                                                \in Range(emitted)

\* the diagnostics of a file that parses, formatted <filePath>:<line>: <message>
DiagnosticsOf(file) == visit(file.path, itemsToIgnore, file.tree).errs

RECURSIVE DiagnosticsOfAll(_, _)
DiagnosticsOfAll(fs, i) ==
    IF i > Len(fs) THEN <<>> ELSE DiagnosticsOf(fs[i]) \o DiagnosticsOfAll(fs, i + 1)

\* C3: when every discovered file parses, main ends in one of two ways: the
\* list is empty, the success message is printed and the status is 0; or
\* every diagnostic is printed once, in file order and visitor order, and
\* the status is 1.
C3_TwoEndings ==
    (fn = "main" /\ pc = "exited" /\ \A i \in DOMAIN files : files[i].parses)
        => \/ /\ DiagnosticsOfAll(files, 1) = <<>>
              /\ stdout = << <<"All checks passed.">> >>
              /\ exitStatus = 0
           \/ /\ DiagnosticsOfAll(files, 1) # <<>>
              /\ stdout = DiagnosticsOfAll(files, 1)
              /\ exitStatus = 1

\* C4: when some file fails to parse, the run still goes through every file,
\* and the diagnostics of every file that parses are printed by the time the
\* process has exited.
C4_ParseFailureIsLocal ==
    (fn = "main" /\ pc = "exited" /\ \E i \in DOMAIN files : ~files[i].parses)
        => /\ fileIdx = Len(files)
           /\ \A i \in DOMAIN files :
                files[i].parses => Range(DiagnosticsOf(files[i])) \subseteq Range(stdout)

====
